---- MODULE Spec2Model ----
(***************************************************************************)
(* Resilience layer of the weather extension: the client-side TTL/LRU      *)
(* cache (ClientCache), the backend credential pool (ApiKeyManager) and    *)
(* the backend route handlers that use the pool.                           *)
(*                                                                         *)
(* Time is counted in abstract ticks of Date.now(); a JS Map is a sequence *)
(* of entries in insertion order (Map iteration order).                    *)
(***************************************************************************)
EXTENDS Integers, Sequences, FiniteSets, TLC

\* ---------------------------------------------------------------- bounds
MaxTime == 2
MaxMaxSize == 2
MaxKeys == 2
MaxCalls == 4
MaxErrCount == 6
MaxRecursion == 3
MaxReq == 1
MaxStarts == 3
MaxClients == 1
MaxLen == 2
MaxEvents == 2
MaxOverlap == 2

\* ------------------------------------------------------- cache: constants
\* ttl of each category, in ticks (the constructor's config values)
weatherTTL == 1
forecastTTL == 2
geocodeTTL == 2

Categories == {"weather", "forecast", "geocode"}
CacheKeys == {"", "a", "b"}
Values == {"v1", "v2"}
Null == "null"

VARIABLES
  cache,      \* category -> sequence of entries (the three Maps)
  config,     \* this.config of the ClientCache
  now,        \* Date.now()
  last,       \* the most recent cache call and what it returned
  setAt,      \* category -> key -> instant of the set that stored the
              \* entry (-1: not stored); recorded in SpecStale only
  cleanupTimer, \* the interval set by the constructor of ClientCache
  keys,       \* ApiKeyManager.keys: sequence of ApiKeyStats
  currentIndex, \* ApiKeyManager.currentIndex (0-based)
  call,       \* the most recent pool call and what it returned
  calls,      \* number of getNextKey calls made
  sawError,   \* recordError has been called at least once
  req,        \* backend GET requests in flight: request id -> record
  rateLimitMap, \* route -> ip -> [count, resetTime] (absent: count = 0)
  started,    \* number of backend requests received
  client,     \* extension-side API calls in flight: call id -> record
  negative,   \* the latest not-found answer a call received
  startup,    \* the credential configuration and how module load ended
  storedCities, \* chrome.storage.local: the value stored under 'cities'
  menu        \* context-menu click handlers: event id -> record

cacheVars == <<cache, config, last, setAt, cleanupTimer>>
poolVars == <<keys, currentIndex, call, calls, sawError>>
handlerVars == <<req, rateLimitMap, started>>
clientVars == <<client, negative>>
extensionVars == <<startup, storedCities, menu>>
vars ==
  <<cache, config, now, last, setAt, cleanupTimer, keys, currentIndex, call, calls,
    sawError, req, rateLimitMap, started, client, negative, startup,
    storedCities, menu>>

\* had: the key was stored before the call; gone: the keys the call
\* removed; goneAt: the Map positions they had
NoCall ==
  [op |-> "none", cat |-> "", key |-> "", val |-> Null, res |-> Null,
   had |-> FALSE, gone |-> {}, goneAt |-> {}]

\* ------------------------------------------------------------ Map helpers
RECURSIVE IndexOfFrom(_, _, _)
IndexOfFrom(m, k, i) ==
  IF i > Len(m) THEN 0
  ELSE IF m[i].key = k THEN i
  ELSE IndexOfFrom(m, k, i + 1)

\* position of key k in the Map, 0 when absent
IndexOf(m, k) == IndexOfFrom(m, k, 1)

MapHas(m, k) == IndexOf(m, k) # 0

MapGet(m, k) == m[IndexOf(m, k)]

MapKeys(m) == {m[i].key : i \in 1..Len(m)}

\* Map.delete: the remaining entries keep their order
MapDelete(m, k) ==
  IF MapHas(m, k)
  THEN SubSeq(m, 1, IndexOf(m, k) - 1) \o SubSeq(m, IndexOf(m, k) + 1, Len(m))
  ELSE m

\* mutant: a set on a stored key leaves the old entry in place
MapSetKeepsOld(m, k, e) ==
  IF IndexOf(m, k) # 0 THEN m ELSE Append(m, e)

\* Map.set: an existing key keeps its position, a new key goes last
MapSet(m, k, e) ==
  IF MapHas(m, k)
  THEN [m EXCEPT ![IndexOf(m, k)] = e]
  ELSE Append(m, e)

TTLOf(c) ==
  IF c = "weather" THEN config.weatherTTL
  ELSE IF c = "forecast" THEN config.forecastTTL
  ELSE config.geocodeTTL

\* ------------------------------------------------------------ LRU scan
\* mutant: eviction by insertion order, the first key of the Map
OldestScanFirstInserted(m, i, oldestKey, oldestTime) ==
  IF Len(m) = 0 THEN oldestKey ELSE <<m[1].key>>

\* the for-loop of set*: oldestKey is <<>> (undefined) or <<key>>
RECURSIVE OldestScan(_, _, _, _)
OldestScan(m, i, oldestKey, oldestTime) ==
  IF i > Len(m) THEN oldestKey
  ELSE IF oldestKey = <<>> \/ m[i].timestamp < oldestTime
       THEN OldestScan(m, i + 1, <<m[i].key>>, m[i].timestamp)
       ELSE OldestScan(m, i + 1, oldestKey, oldestTime)

OldestKey(m) == OldestScan(m, 1, <<>>, 0)

\* JS truthiness of oldestKey in "if (oldestKey)"
Truthy(oldestKey) == oldestKey # <<>> /\ oldestKey[1] # ""

\* mutant: a full map is left as it is
EvictNever(m) == m

\* the eviction block at the head of set*
Evict(m) ==
  IF Len(m) >= config.maxSize
  THEN IF Truthy(OldestKey(m)) THEN MapDelete(m, OldestKey(m)[1]) ELSE m
  ELSE m

\* mutant: an entry already expires when exactly ttl has elapsed
ExpiredAtTtl(e, t) == t - e.timestamp >= e.ttl

Expired(e, t) == t - e.timestamp > e.ttl


\* ------------------------------------------------------- credential pool
maxErrors == 5

\* the configured credentials, in the order of OPEN_WEATHER_API_KEYS
ApiKeys == <<"k1", "k2", "k3", "k4">>
UnknownKey == "kx"

NoPoolCall == [op |-> "none", key |-> "", threw |-> FALSE, passes |-> <<>>]

\* initializeKeys(): one record per configured key
InitialKeys(n) ==
  [i \in 1..n |-> [key |-> ApiKeys[i], requests |-> 0, lastUsed |-> 0,
                   errors |-> 0, isActive |-> TRUE]]

\* this.keys.find(k => k.key === key): position of the first match, 0 if none
RECURSIVE FindFrom(_, _, _)
FindFrom(ks, key, i) ==
  IF i > Len(ks) THEN 0
  ELSE IF ks[i].key = key THEN i
  ELSE FindFrom(ks, key, i + 1)

FindKey(ks, key) == FindFrom(ks, key, 1)

\* mutant: the sweep reactivates but keeps the error counts
reactivateKeepsErrors(ks) ==
  [i \in 1..Len(ks) |-> [ks[i] EXCEPT !.isActive = TRUE]]

reactivateAllKeys(ks) ==
  [i \in 1..Len(ks) |-> [ks[i] EXCEPT !.isActive = TRUE, !.errors = 0]]

\* mutant: a success also reactivates the credential
recordSuccessReactivates(ks, key) ==
  IF FindKey(ks, key) = 0 THEN ks
  ELSE [ks EXCEPT ![FindKey(ks, key)].errors = 0,
                  ![FindKey(ks, key)].isActive = TRUE]

\* recordSuccess(key): the error count of the record goes back to 0
recordSuccess(ks, key) ==
  IF FindKey(ks, key) = 0 THEN ks
  ELSE [ks EXCEPT ![FindKey(ks, key)].errors = 0]

\* mutant: the credential is deactivated one error late
recordErrorLate(ks, key) ==
  IF FindKey(ks, key) = 0 THEN ks
  ELSE LET i == FindKey(ks, key)
           e == ks[i].errors + 1
       IN [ks EXCEPT ![i].errors = e,
                     ![i].isActive = IF e > maxErrors THEN FALSE ELSE @]

recordError(ks, key) ==
  IF FindKey(ks, key) = 0 THEN ks
  ELSE LET i == FindKey(ks, key)
           e == ks[i].errors + 1
       IN [ks EXCEPT ![i].errors = e,
                     ![i].isActive = IF e >= maxErrors THEN FALSE ELSE @]

\* mutant: the usage statistics go to the first record
UseKeyFirst(ks, idx, t) ==
  [ks EXCEPT ![1].requests = @ + 1, ![1].lastUsed = t]

\* the record found active: bump its statistics
UseKey(ks, idx, t) ==
  [ks EXCEPT ![idx + 1].requests = @ + 1, ![idx + 1].lastUsed = t]

\* mutant: the loop gives up only after one attempt too many
RECURSIVE KeyLoopExtra(_, _, _, _, _)
KeyLoopExtra(ks, idx, attempts, seen, t) ==
  IF attempts > Len(ks)
  THEN [found |-> FALSE, key |-> "", keys |-> ks, idx |-> idx, seen |-> seen]
  ELSE IF ks[idx + 1].isActive
       THEN [found |-> TRUE, key |-> ks[idx + 1].key,
             keys |-> [ks EXCEPT ![idx + 1].requests = @ + 1,
                                 ![idx + 1].lastUsed = t],
             idx |-> (idx + 1) % Len(ks), seen |-> Append(seen, idx)]
       ELSE KeyLoopExtra(ks, (idx + 1) % Len(ks), attempts + 1,
                         Append(seen, idx), t)

\* the while loop of getNextKey; seen lists the positions it inspected
RECURSIVE KeyLoop(_, _, _, _, _)
KeyLoop(ks, idx, attempts, seen, t) ==
  IF attempts >= Len(ks)
  THEN [found |-> FALSE, key |-> "", keys |-> ks, idx |-> idx, seen |-> seen]
  ELSE IF ks[idx + 1].isActive
       THEN [found |-> TRUE, key |-> ks[idx + 1].key,
             keys |-> UseKey(ks, idx, t), idx |-> (idx + 1) % Len(ks),
             seen |-> Append(seen, idx)]
       ELSE KeyLoop(ks, (idx + 1) % Len(ks), attempts + 1,
                    Append(seen, idx), t)

\* mutant: a pass that finds no active record gives up without a sweep
getNextKeyNoSweep(ks, idx, t, passes) ==
  LET r == KeyLoop(ks, idx, 0, <<>>, t)
  IN [key |-> r.key, threw |-> ~r.found, keys |-> r.keys, idx |-> r.idx,
      passes |-> Append(passes, r.seen)]

\* getNextKey(): passes collects what every pass of the loop inspected; a
\* recursion deeper than MaxRecursion ends as the stack overflow it would be
RECURSIVE getNextKey(_, _, _, _)
getNextKey(ks, idx, t, passes) ==
  IF Len(ks) = 0
  THEN [key |-> "", threw |-> TRUE, keys |-> ks, idx |-> idx,
        passes |-> passes]
  ELSE LET r == KeyLoop(ks, idx, 0, <<>>, t)
       IN IF r.found
          THEN [key |-> r.key, threw |-> FALSE, keys |-> r.keys,
                idx |-> r.idx, passes |-> Append(passes, r.seen)]
          ELSE IF Len(passes) >= MaxRecursion
               THEN [key |-> "", threw |-> TRUE, keys |-> r.keys,
                     idx |-> r.idx, passes |-> Append(passes, r.seen)]
               ELSE getNextKey(reactivateAllKeys(r.keys), r.idx, t,
                               Append(passes, r.seen))

GetNextKey ==
  /\ calls < MaxCalls
  /\ LET r == getNextKey(keys, currentIndex, now, <<>>)
     IN /\ keys' = r.keys
        /\ currentIndex' = r.idx
        /\ call' = [op |-> "getNextKey", key |-> r.key, threw |-> r.threw,
                    passes |-> r.passes]
  /\ calls' = calls + 1
  /\ UNCHANGED <<cacheVars, now, sawError, handlerVars, clientVars, extensionVars>>

RecordSuccess(key) ==
  /\ keys' = recordSuccess(keys, key)
  /\ call' = [NoPoolCall EXCEPT !.op = "recordSuccess", !.key = key]
  /\ UNCHANGED <<cacheVars, now, currentIndex, calls, sawError, handlerVars, clientVars, extensionVars>>

RecordError(key) ==
  /\ FindKey(keys, key) # 0 => keys[FindKey(keys, key)].errors < MaxErrCount
  /\ keys' = recordError(keys, key)
  /\ call' = [NoPoolCall EXCEPT !.op = "recordError", !.key = key]
  /\ sawError' = TRUE
  /\ UNCHANGED <<cacheVars, now, currentIndex, calls, handlerVars, clientVars, extensionVars>>

ConfiguredKeys == {keys[i].key : i \in 1..Len(keys)}

\* ------------------------------------------------- backend route handlers
RATE_LIMIT == 60
\* RATE_LIMIT_WINDOW, in ticks of one minute
RATE_LIMIT_WINDOW == 1
MAX_CITY_LENGTH == 100

Routes == {"weather", "forecast"}
Ips == {"ip1", "ip2"}
\* the client the handler workload sends from
OneIp == {"ip1"}
ReqIds == 1..MaxReq

\* a query parameter: searchParams.get gives null when it is absent
Param(text) == [present |-> TRUE, text |-> text]
Absent == [present |-> FALSE, text |-> <<>>]

\* city texts are sequences of characters
CityInputs ==
  {Absent, Param(<<>>), Param(<<" ">>), Param(<<"a">>),
   Param(<<" ", "D", "h", " ">>), Param(<<"a", "<">>),
   Param(<<"D", "a", "t", "a", ":">>)}
UnitInputs ==
  {[present |-> FALSE, text |-> ""], [present |-> TRUE, text |-> ""],
   [present |-> TRUE, text |-> "metric"], [present |-> TRUE, text |-> "kelvin"]}

IsSpace(ch) == ch = " "

RECURSIVE TrimLeft(_)
TrimLeft(t) ==
  IF t # <<>> /\ IsSpace(Head(t)) THEN TrimLeft(Tail(t)) ELSE t

RECURSIVE TrimRight(_)
TrimRight(t) ==
  IF t # <<>> /\ IsSpace(t[Len(t)])
  THEN TrimRight(SubSeq(t, 1, Len(t) - 1))
  ELSE t

\* String.prototype.trim
Trim(t) == TrimRight(TrimLeft(t))

\* the letters that occur in the inputs, for the /i flag of the pattern
ToLower(ch) ==
  IF ch = "D" THEN "d" ELSE IF ch = "A" THEN "a" ELSE IF ch = "T" THEN "t"
  ELSE ch

HasSubstring(t, pat) ==
  \E i \in 1..Len(t) :
    /\ i + Len(pat) - 1 <= Len(t)
    /\ \A j \in 1..Len(pat) : ToLower(t[i + j - 1]) = pat[j]

DangerousChars == {"<", ">", "\"", "'", "&"}

MaliciousWords ==
  {<<"j", "a", "v", "a", "s", "c", "r", "i", "p", "t", ":">>,
   <<"d", "a", "t", "a", ":">>,
   <<"v", "b", "s", "c", "r", "i", "p", "t", ":">>,
   <<"o", "n", "l", "o", "a", "d", "=">>,
   <<"o", "n", "e", "r", "r", "o", "r", "=">>}

\* maliciousPattern.test(trimmed)
MaliciousPattern(t) ==
  \/ \E i \in 1..Len(t) : t[i] \in DangerousChars
  \/ \E w \in MaliciousWords : HasSubstring(t, w)

AllowedUnits == {"metric", "imperial", "standard"}

\* validateInput(city, units).valid
validateInput(city, units) ==
  /\ city.present /\ city.text # <<>>
  /\ Len(Trim(city.text)) # 0
  /\ Len(Trim(city.text)) <= MAX_CITY_LENGTH
  /\ ~MaliciousPattern(Trim(city.text))
  /\ units.present /\ units.text # ""
  /\ units.text \in AllowedUnits

\* checkRateLimit(ip): the map after the call
RateEntry(route, ip) == rateLimitMap[route][ip]

\* mutant: the limit is compared with > instead of >=
RateAdmitsOneMore(route, ip, t) ==
  \/ RateEntry(route, ip).count = 0
  \/ t > RateEntry(route, ip).resetTime
  \/ RateEntry(route, ip).count <= RATE_LIMIT

RateAdmits(route, ip, t) ==
  \/ RateEntry(route, ip).count = 0
  \/ t > RateEntry(route, ip).resetTime
  \/ RateEntry(route, ip).count < RATE_LIMIT

RateAfter(route, ip, t) ==
  IF RateEntry(route, ip).count = 0 \/ t > RateEntry(route, ip).resetTime
  THEN [rateLimitMap EXCEPT ![route][ip] =
          [count |-> 1, resetTime |-> t + RATE_LIMIT_WINDOW]]
  ELSE IF RateEntry(route, ip).count >= RATE_LIMIT
       THEN rateLimitMap
       ELSE [rateLimitMap EXCEPT ![route][ip].count = @ + 1]

\* what the upstream fetch can do: reject (timeout abort, network error)
\* or resolve with a status
Rejected(name) == [rejected |-> TRUE, name |-> name, status |-> 0]
Resolved(status) == [rejected |-> FALSE, name |-> "", status |-> status]

FetchOutcomes ==
  {Rejected("AbortError"), Rejected("TypeError")} \cup
  {Resolved(n) : n \in {200, 401, 404, 429, 500, 502}}

\* what response.json() can give: a syntax error, a body shaped like a
\* current-weather answer or a body shaped like a forecast answer
Bodies ==
  {[json |-> FALSE, name |-> FALSE, main |-> FALSE, weather |-> FALSE,
    list |-> "none", nullItem |-> FALSE]} \cup
  [json : {TRUE}, name : BOOLEAN, main : BOOLEAN, weather : BOOLEAN,
   list : {"none"}, nullItem : {FALSE}] \cup
  [json : {TRUE}, name : {FALSE}, main : {FALSE}, weather : {FALSE},
   list : {"none", "array"}, nullItem : BOOLEAN]


\* the structure check of the weather route
ValidWeather(d) == d.main /\ d.weather

\* the structure check of the forecast route
ValidForecast(d) == d.list = "array"

\* the daily-forecast loop reads item.dt of every item: a null item throws
ForecastThrows(d) == d.list = "array" /\ d.nullItem

NoRequest ==
  [pc |-> "idle", route |-> "", ip |-> "", apiKey |-> "", reports |-> 0,
   status |-> 0]

Respond(r, code) == [req[r] EXCEPT !.pc = "done", !.status = code]

\* GET up to "await fetch": rate limit, validation, getNextKey
Start(r, route, ip, city, units) ==
  /\ req[r].pc = "idle"
  /\ started < MaxStarts
  /\ started' = started + 1
  /\ rateLimitMap' = RateAfter(route, ip, now)
  /\ IF ~RateAdmits(route, ip, now)
     THEN /\ req' = [req EXCEPT ![r] = [NoRequest EXCEPT !.pc = "done",
                                        !.route = route, !.ip = ip,
                                        !.status = 429]]
          /\ UNCHANGED poolVars
     ELSE IF ~validateInput(city, units)
     THEN /\ req' = [req EXCEPT ![r] = [NoRequest EXCEPT !.pc = "done",
                                        !.route = route, !.ip = ip,
                                        !.status = 400]]
          /\ UNCHANGED poolVars
     ELSE LET g == getNextKey(keys, currentIndex, now, <<>>)
          IN /\ keys' = g.keys
             /\ currentIndex' = g.idx
             /\ calls' = calls + 1
             /\ call' = [op |-> "getNextKey", key |-> g.key,
                         threw |-> g.threw, passes |-> g.passes]
             /\ req' = [req EXCEPT ![r] =
                  IF g.threw
                  THEN [NoRequest EXCEPT !.pc = "done", !.route = route,
                                         !.ip = ip, !.status = 503]
                  ELSE [NoRequest EXCEPT !.pc = "fetch", !.route = route,
                                         !.ip = ip, !.apiKey = g.key]]
             /\ UNCHANGED sawError
  /\ UNCHANGED <<cacheVars, now, clientVars, extensionVars>>

\* the handler calls apiKeyManager.recordError(apiKey, ...) and answers
ReportError(r, code) ==
  /\ keys' = recordError(keys, req[r].apiKey)
  /\ call' = [NoPoolCall EXCEPT !.op = "recordError", !.key = req[r].apiKey]
  /\ sawError' = TRUE
  /\ req' = [req EXCEPT ![r] = [Respond(r, code) EXCEPT !.reports = @ + 1]]
  /\ UNCHANGED <<currentIndex, calls>>

\* the handler calls apiKeyManager.recordSuccess(apiKey) and answers
ReportSuccess(r, code) ==
  /\ keys' = recordSuccess(keys, req[r].apiKey)
  /\ call' = [NoPoolCall EXCEPT !.op = "recordSuccess", !.key = req[r].apiKey]
  /\ req' = [req EXCEPT ![r] = [Respond(r, code) EXCEPT !.reports = @ + 1]]
  /\ UNCHANGED <<currentIndex, calls, sawError>>

\* the handler answers without telling the pool
AnswerOnly(r, code) ==
  /\ req' = [req EXCEPT ![r] = Respond(r, code)]
  /\ UNCHANGED poolVars

\* mutant: the not-found branch reports an error on the credential
FetchSettlesPenalizes404(r, outcome) ==
  /\ req[r].pc = "fetch"
  /\ IF outcome.rejected /\ outcome.name = "AbortError"
     THEN AnswerOnly(r, 408)
     ELSE IF outcome.rejected THEN AnswerOnly(r, 503)
     ELSE IF outcome.status = 404 THEN ReportError(r, 404)
     ELSE IF outcome.status < 200 \/ outcome.status > 299
     THEN ReportError(r, 503)
     ELSE /\ req' = [req EXCEPT ![r].pc = "json"]
          /\ UNCHANGED poolVars
  /\ UNCHANGED <<cacheVars, now, rateLimitMap, started, clientVars, extensionVars>>

\* GET from the settling of fetch up to the return or "await json()"
FetchSettles(r, outcome) ==
  /\ req[r].pc = "fetch"
  /\ IF outcome.rejected /\ outcome.name = "AbortError"
     THEN AnswerOnly(r, 408)
     ELSE IF outcome.rejected THEN AnswerOnly(r, 503)
     ELSE IF outcome.status = 401 THEN ReportError(r, 503)
     ELSE IF outcome.status = 404 THEN AnswerOnly(r, 404)
     ELSE IF outcome.status = 429 THEN ReportError(r, 503)
     ELSE IF outcome.status = 500 THEN ReportError(r, 503)
     ELSE IF outcome.status < 200 \/ outcome.status > 299
     THEN ReportError(r, 503)
     ELSE /\ req' = [req EXCEPT ![r].pc = "json"]
          /\ UNCHANGED poolVars
  /\ UNCHANGED <<cacheVars, now, rateLimitMap, started, clientVars, extensionVars>>

\* GET from the settling of response.json() up to the return
JsonSettles(r, d) ==
  /\ req[r].pc = "json"
  /\ IF ~d.json THEN AnswerOnly(r, 503)
     ELSE IF req[r].route = "weather"
     THEN IF ~ValidWeather(d) THEN ReportError(r, 500)
          ELSE ReportSuccess(r, 200)
     ELSE IF ~ValidForecast(d) THEN ReportError(r, 500)
          ELSE IF ForecastThrows(d) THEN AnswerOnly(r, 503)
          ELSE ReportSuccess(r, 200)
  /\ UNCHANGED <<cacheVars, now, rateLimitMap, started, clientVars, extensionVars>>

\* the response has been sent; the slot serves the next request
Finish(r) ==
  /\ req[r].pc = "done"
  /\ req' = [req EXCEPT ![r] = NoRequest]
  /\ UNCHANGED <<cacheVars, now, poolVars, rateLimitMap, started, clientVars, extensionVars>>

HandlerInit ==
  /\ req = [r \in ReqIds |-> NoRequest]
  /\ rateLimitMap = [route \in Routes |-> [ip \in Ips |->
                       [count |-> 0, resetTime |-> 0]]]
  /\ started = 0

\* ------------------------------------------------------ cache operations
\* what a call removed from Map m, leaving m2
Removed(m, m2) == MapKeys(m) \ MapKeys(m2)
RemovedAt(m, m2) == {i \in 1..Len(m) : m[i].key \notin MapKeys(m2)}

\* setWeather / setForecast / setGeocode
Set(c, k, v) ==
  /\ cache' = [cache EXCEPT ![c] =
       MapSet(Evict(cache[c]), k,
              [key |-> k, data |-> v, timestamp |-> now, ttl |-> TTLOf(c)])]
  /\ last' = [op |-> "set", cat |-> c, key |-> k, val |-> v, res |-> Null,
              had |-> MapHas(cache[c], k),
              gone |-> Removed(cache[c], cache'[c]),
              goneAt |-> RemovedAt(cache[c], cache'[c])]
  /\ UNCHANGED <<config, cleanupTimer, now, poolVars, handlerVars, clientVars, extensionVars>>

\* getWeather / getForecast / getGeocode
GetResult(c, k) ==
  IF ~MapHas(cache[c], k) THEN Null
  ELSE IF Expired(MapGet(cache[c], k), now) THEN Null
  ELSE MapGet(cache[c], k).data

GetMap(c, k) ==
  IF ~MapHas(cache[c], k) THEN cache[c]
  ELSE IF Expired(MapGet(cache[c], k), now) THEN MapDelete(cache[c], k)
  ELSE [cache[c] EXCEPT ![IndexOf(cache[c], k)].timestamp = now]

Get(c, k) ==
  /\ cache' = [cache EXCEPT ![c] = GetMap(c, k)]
  /\ last' = [op |-> "get", cat |-> c, key |-> k, val |-> Null,
              res |-> GetResult(c, k), had |-> MapHas(cache[c], k),
              gone |-> Removed(cache[c], cache'[c]),
              goneAt |-> RemovedAt(cache[c], cache'[c])]
  /\ UNCHANGED <<config, cleanupTimer, now, poolVars, handlerVars, clientVars, extensionVars>>

\* mutant: the loop spares the last entry of the Map
CleanMapSparesLast(m, t) ==
  IF m = <<>> THEN m
  ELSE SelectSeq(SubSeq(m, 1, Len(m) - 1), LAMBDA e : ~Expired(e, t))
         \o <<m[Len(m)]>>

\* cleanup(): one category's loop
CleanMap(m, t) == SelectSeq(m, LAMBDA e : ~Expired(e, t))

Cleanup ==
  /\ cache' = [c \in Categories |-> CleanMap(cache[c], now)]
  /\ last' = [NoCall EXCEPT !.op = "cleanup",
                !.gone = UNION {Removed(cache[c], cache'[c]) : c \in Categories}]
  /\ UNCHANGED <<config, cleanupTimer, now, poolVars, handlerVars, clientVars, extensionVars>>

\* cache.destroy(): the class has no such member, the call is a TypeError
\* and changes nothing
Destroy ==
  /\ last' = [NoCall EXCEPT !.op = "destroy", !.res = "TypeError"]
  /\ UNCHANGED <<cache, config, cleanupTimer, now, poolVars, handlerVars,
                 clientVars, extensionVars>>

\* the clock advances
Tick ==
  /\ now < MaxTime
  /\ now' = now + 1
  /\ last' = [NoCall EXCEPT !.op = "tick"]
  /\ UNCHANGED <<cache, config, cleanupTimer, keys, currentIndex, calls, sawError, handlerVars, clientVars, extensionVars>>
  /\ call' = [NoPoolCall EXCEPT !.op = "tick"]

\* ---------------------------------------------- extension: API functions
MAX_RETRIES == 3
\* the default maxSize of the shared clientCache instance
DefaultMaxSize == 100
\* ERROR_CACHE_DURATION (5 minutes), in ticks
ERROR_CACHE_DURATION == 1

ClientIds == 1..MaxClients
ApiFns == {"weather", "forecast", "geocode"}

\* string literals as sequences of characters
WeatherPrefix == <<"w", "e", "a", "t", "h", "e", "r", "-">>
ForecastPrefix == <<"f", "o", "r", "e", "c", "a", "s", "t", "-">>
UnitChars(u) ==
  IF u = "metric" THEN <<"m", "e", "t", "r", "i", "c">>
  ELSE IF u = "imperial" THEN <<"i", "m", "p", "e", "r", "i", "a", "l">>
  ELSE IF u = "standard" THEN <<"s", "t", "a", "n", "d", "a", "r", "d">>
  ELSE <<"k", "e", "l", "v", "i", "n">>

\* getWeatherKey / getForecastKey: the template string, city as given
getWeatherKey(city, units) == WeatherPrefix \o city \o <<"-">> \o UnitChars(units)
getForecastKey(city, units) ==
  ForecastPrefix \o city \o <<"-">> \o UnitChars(units)

\* Number(x).toFixed(4) of a coordinate given in units of 0.00001 degree,
\* as a count of 0.0001 degree
ToFixed4(x) == IF x >= 0 THEN (x + 5) \div 10 ELSE 0 - ((5 - x) \div 10)

getGeocodeKey(lat, lon) == <<"geocode-", ToFixed4(lat), "-", ToFixed4(lon)>>

\* the characters [a-zA-Z] that occur in the inputs
Letters == {"D", "d", "h", "a", "k"}

\* validPattern.test(trimmed): letters, white space and hyphens only
ValidPattern(t) ==
  t # <<>> /\ \A i \in 1..Len(t) : t[i] \in Letters \/ IsSpace(t[i]) \/ t[i] = "-"

\* validateAndSanitizeCity(city): valid, and the sanitized text
validateAndSanitizeCity(city) ==
  IF /\ city # <<>>
     /\ Len(Trim(city)) >= 2
     /\ Len(Trim(city)) <= MAX_CITY_LENGTH
     /\ ~MaliciousPattern(Trim(city))
     /\ ValidPattern(Trim(city))
  THEN [valid |-> TRUE,
        sanitized |-> SelectSeq(Trim(city), LAMBDA ch : ch \notin DangerousChars)]
  ELSE [valid |-> FALSE, sanitized |-> <<>>]

\* mutant: every unit system is let through
validateUnitsAny(units) == TRUE

\* validateUnits(units)
validateUnits(units) == units \in AllowedUnits

\* validateCoordinates(lat, lon), coordinates in units of 0.00001 degree
validateCoordinates(c) ==
  /\ ~c.nan
  /\ c.lat >= -9000000 /\ c.lat <= 9000000
  /\ c.lon >= -18000000 /\ c.lon <= 18000000

\* the arguments a caller can pass
CityArgs ==
  {[fn |-> fn, city |-> city, units |-> units, lat |-> 0, lon |-> 0,
    nan |-> FALSE] :
     fn \in {"weather", "forecast"},
     city \in {<<"D", "h">>, <<" ", "D", "h">>, <<"d">>, <<"D", "<">>},
     units \in {"metric", "kelvin"}}
CoordArgs ==
  {[fn |-> "geocode", city |-> <<>>, units |-> "", lat |-> c[1], lon |-> c[2],
    nan |-> c[3]] :
     c \in {<<2381034, 9041251, FALSE>>, <<2381031, 9041249, FALSE>>,
            <<9100000, 0, FALSE>>, <<0, 0, TRUE>>}}
ClientArgs == CityArgs \cup CoordArgs

ArgsValid(a) ==
  IF a.fn = "geocode" THEN validateCoordinates(a)
  ELSE validateAndSanitizeCity(a.city).valid /\ validateUnits(a.units)

KeyOfArgs(a) ==
  IF a.fn = "geocode" THEN getGeocodeKey(a.lat, a.lon)
  ELSE IF a.fn = "weather"
       THEN getWeatherKey(validateAndSanitizeCity(a.city).sanitized, a.units)
       ELSE getForecastKey(validateAndSanitizeCity(a.city).sanitized, a.units)

\* what response.json() of a backend answer can give: a syntax error, a
\* value that is no object, or an object with these fields
ClientBodies ==
  {"syntax", "nonobject", "name+main+weather", "main+weather", "name+weather",
   "name+main", "list[]", "list", "city", "{}"}

HasName(d) ==
  d \in {"name+main+weather", "name+main+weather+wind", "name+weather",
         "name+main"}
HasMain(d) ==
  d \in {"name+main+weather", "name+main+weather+wind", "main+weather",
         "name+main"}
HasWeather(d) ==
  d \in {"name+main+weather", "name+main+weather+wind", "main+weather",
         "name+weather"}
HasList(d) == d \in {"list[]", "list"}
ListIsArray(d) == d = "list[]"
HasCity(d) == d = "city"

\* the structure checks before set*
BodyValid(fn, d) ==
  /\ d # "syntax" /\ d # "nonobject"
  /\ IF fn = "weather" THEN HasName(d) /\ HasMain(d) /\ HasWeather(d)
     ELSE IF fn = "forecast" THEN HasList(d) /\ ListIsArray(d)
     ELSE HasCity(d)

\* what the function returns for data: data, or data.city for the geocode
Returned(fn, d) == IF fn = "geocode" THEN "data.city" ELSE d

\* the statuses the backend answers with
BackendOutcomes ==
  {Rejected("AbortError"), Rejected("TypeError")} \cup
  {Resolved(n) : n \in {200, 400, 404, 429, 500}}

\* the error thrown for a response that is not ok
StatusError(status) ==
  IF status = 429 THEN "too many requests"
  ELSE IF status = 400 THEN "invalid request"
  ELSE IF status = 404 THEN "not found"
  ELSE IF status >= 500 THEN "service unavailable"
  ELSE "failed to fetch"

NoClient ==
  [pc |-> "idle", fn |-> "", key |-> <<>>, retries |-> 0, attempts |-> 0,
   waits |-> <<>>, result |-> Null, threw |-> ""]

NoNegative == [fn |-> "", key |-> <<>>, at |-> 0 - 1]

\* mutant: the cached value is never taken for a hit
CacheHitNever(cachedData) == FALSE

\* if (cachedData): every stored value is an object
CacheHit(cachedData) == cachedData # Null

\* mutant: one retry more than MAX_RETRIES
ShouldRetryOnceMore(retries) == retries >= 0

\* if (retries > 0) of fetchWithRetry
ShouldRetry(retries) == retries > 0

RECURSIVE Pow2(_)
Pow2(n) == IF n = 0 THEN 1 ELSE 2 * Pow2(n - 1)

\* the delay before the next attempt, in milliseconds
RetryDelay(retries) == Pow2(MAX_RETRIES - retries) * 1000

Throw(i, err) == [client[i] EXCEPT !.pc = "done", !.threw = err]

\* getWeatherData / getForecastData / getCityNameFromCoords up to the
\* first await: validation, cache lookup, first fetch
ClientCall(i, a) ==
  /\ client[i].pc = "idle"
  /\ IF ~ArgsValid(a)
     THEN /\ client' = [client EXCEPT ![i] =
                 [NoClient EXCEPT !.pc = "done", !.fn = a.fn,
                                  !.threw = "validation"]]
          /\ UNCHANGED <<cache, last>>
     ELSE LET k == KeyOfArgs(a)
              cachedData == GetResult(a.fn, k)
          IN /\ cache' = [cache EXCEPT ![a.fn] = GetMap(a.fn, k)]
             /\ last' = [op |-> "get", cat |-> a.fn, key |-> k, val |-> Null,
                         res |-> cachedData, had |-> MapHas(cache[a.fn], k),
                         gone |-> Removed(cache[a.fn], cache'[a.fn]),
                         goneAt |-> RemovedAt(cache[a.fn], cache'[a.fn])]
             /\ client' = [client EXCEPT ![i] =
                  IF CacheHit(cachedData)
                  THEN [NoClient EXCEPT !.pc = "done", !.fn = a.fn, !.key = k,
                                        !.result = Returned(a.fn, cachedData)]
                  ELSE [NoClient EXCEPT !.pc = "fetch", !.fn = a.fn, !.key = k,
                                        !.retries = MAX_RETRIES,
                                        !.attempts = 1]]
  /\ UNCHANGED <<config, setAt, cleanupTimer, now, poolVars, handlerVars, extensionVars>>

\* the fetch of secureFetch settles: fetchWithRetry catches a rejection,
\* the API function classifies a response
ClientFetchSettles(i, outcome) ==
  /\ client[i].pc = "fetch"
  /\ client' = [client EXCEPT ![i] =
       IF outcome.rejected
       THEN IF ShouldRetry(client[i].retries)
            THEN [client[i] EXCEPT !.pc = "wait",
                    !.waits = Append(@, RetryDelay(client[i].retries))]
            ELSE Throw(i, outcome.name)
       ELSE IF outcome.status < 200 \/ outcome.status > 299
            THEN Throw(i, StatusError(outcome.status))
            ELSE [client[i] EXCEPT !.pc = "json"]]
  /\ UNCHANGED <<cacheVars, now, poolVars, handlerVars, extensionVars>>

\* the backoff delay has passed: fetchWithRetry(url, options, retries - 1)
ClientRetry(i) ==
  /\ client[i].pc = "wait"
  /\ client' = [client EXCEPT ![i].pc = "fetch", ![i].retries = @ - 1,
                              ![i].attempts = @ + 1]
  /\ UNCHANGED <<cacheVars, now, poolVars, handlerVars, extensionVars>>

\* response.json() of an ok response settles: structure check, set*, return
ClientJsonSettles(i, d) ==
  /\ client[i].pc = "json"
  /\ IF d = "syntax" THEN
          /\ client' = [client EXCEPT ![i] = Throw(i, "SyntaxError")]
          /\ UNCHANGED <<cache, last>>
     ELSE IF ~BodyValid(client[i].fn, d) THEN
          /\ client' = [client EXCEPT ![i] = Throw(i, "invalid response")]
          /\ UNCHANGED <<cache, last>>
     ELSE LET c == client[i].fn
              k == client[i].key
          IN /\ cache' = [cache EXCEPT ![c] =
                  MapSet(Evict(cache[c]), k,
                         [key |-> k, data |-> d, timestamp |-> now,
                          ttl |-> TTLOf(c)])]
             /\ last' = [op |-> "set", cat |-> c, key |-> k, val |-> d,
                         res |-> Null, had |-> MapHas(cache[c], k),
                         gone |-> Removed(cache[c], cache'[c]),
                         goneAt |-> RemovedAt(cache[c], cache'[c])]
             /\ client' = [client EXCEPT ![i].pc = "done",
                                         ![i].result = Returned(c, d)]
  /\ UNCHANGED <<config, setAt, cleanupTimer, now, poolVars, handlerVars, extensionVars>>

\* the caller has the result; the slot serves the next call
ClientFinish(i) ==
  /\ client[i].pc = "done"
  /\ client' = [client EXCEPT ![i] = NoClient]
  /\ UNCHANGED <<cacheVars, now, poolVars, handlerVars, extensionVars>>

ClientIdle ==
  /\ client = [i \in ClientIds |-> NoClient]
  /\ negative = NoNegative

\* no credential configuration under study, no context-menu event yet
NoStartup == [target |-> "", multi |-> <<>>, single |-> <<>>, state |-> "none"]
NoMenu == [pc |-> "idle", text |-> <<>>, cities |-> <<>>, wrote |-> FALSE]

ExtensionIdle ==
  /\ startup = NoStartup
  /\ storedCities = <<>>
  /\ menu = <<>>

\* new ClientCache(config)
CacheInit ==
  /\ cache = [c \in Categories |-> <<>>]
  /\ config \in [weatherTTL : {weatherTTL}, forecastTTL : {forecastTTL},
                 geocodeTTL : {geocodeTTL}, maxSize : 1..MaxMaxSize]
  /\ now = 0
  /\ cleanupTimer = "running"
  /\ last = NoCall
  /\ setAt = [c \in Categories |-> [k \in CacheKeys |-> -1]]

\* a pool left alone, for the specification of the cache
PoolIdle ==
  /\ keys = InitialKeys(1)
  /\ currentIndex = 0
  /\ call = NoPoolCall
  /\ calls = 0
  /\ sawError = FALSE

Init == CacheInit /\ PoolIdle /\ HandlerInit /\ ClientIdle /\ ExtensionIdle

\* the workload keeps one category populated at a time
OthersEmpty(c) == \A d \in Categories \ {c} : cache[d] = <<>>

CacheStep ==
  \/ \E c \in Categories, k \in CacheKeys, v \in Values :
       OthersEmpty(c) /\ Set(c, k, v)
  \/ \E c \in Categories, k \in CacheKeys : OthersEmpty(c) /\ Get(c, k)
  \/ Cleanup
  \/ Tick

Next == CacheStep /\ UNCHANGED setAt

Spec == Init /\ [][Next]_vars

\* the same cache, with a caller that tears it down
NextTeardown == (CacheStep \/ Destroy) /\ UNCHANGED setAt

SpecTeardown == Init /\ [][NextTeardown]_vars

\* the same cache, with the instant of every stored entry's set recorded
RecordSetAt ==
  setAt' = [c \in Categories |-> [k \in CacheKeys |->
              IF ~MapHas(cache'[c], k) THEN -1
              ELSE IF last'.op = "set" /\ last'.cat = c /\ last'.key = k
                   THEN now
                   ELSE setAt[c][k]]]

NextStale == CacheStep /\ RecordSetAt

SpecStale == Init /\ [][NextStale]_vars

\* a cache left alone, for the specification of the pool
CacheIdle ==
  /\ cache = [c \in Categories |-> <<>>]
  /\ config = [weatherTTL |-> weatherTTL, forecastTTL |-> forecastTTL,
               geocodeTTL |-> geocodeTTL, maxSize |-> 1]
  /\ now = 0
  /\ cleanupTimer = "running"
  /\ last = NoCall
  /\ setAt = [c \in Categories |-> [k \in CacheKeys |-> -1]]

\* new ApiKeyManager() with 1..MaxKeys configured keys
PoolInit ==
  /\ keys \in {InitialKeys(n) : n \in 1..MaxKeys}
  /\ currentIndex = 0
  /\ call = NoPoolCall
  /\ calls = 0
  /\ sawError = FALSE

InitPool == CacheIdle /\ PoolInit /\ HandlerInit /\ ClientIdle /\ ExtensionIdle

NextPool ==
  \/ GetNextKey
  \/ \E key \in ConfiguredKeys \cup {UnknownKey} : RecordSuccess(key)
  \/ \E key \in ConfiguredKeys \cup {UnknownKey} : RecordError(key)

SpecPool == InitPool /\ [][NextPool]_vars

InitHandler == CacheIdle /\ PoolInit /\ HandlerInit /\ ClientIdle /\ ExtensionIdle

\* the workload gives a new request the lowest free slot
LowestIdle(r) == \A q \in ReqIds : q < r => req[q].pc # "idle"

NextHandler ==
  \/ \E r \in ReqIds, route \in Routes, ip \in OneIp, city \in CityInputs,
        units \in UnitInputs :
          LowestIdle(r) /\ Start(r, route, ip, city, units)
  \/ \E r \in ReqIds, outcome \in FetchOutcomes : FetchSettles(r, outcome)
  \/ \E r \in ReqIds, d \in Bodies : JsonSettles(r, d)
  \/ \E r \in ReqIds : Finish(r)

SpecHandler == InitHandler /\ [][NextHandler]_vars

\* the routes after one client sent 59 requests with a missing city to the
\* forecast route at instant 0, with the clock running
RateInit ==
  /\ req = [r \in ReqIds |-> NoRequest]
  /\ rateLimitMap = [route \in Routes |-> [ip \in Ips |->
       IF route = "forecast" /\ ip = "ip1"
       THEN [count |-> RATE_LIMIT - 1, resetTime |-> RATE_LIMIT_WINDOW]
       ELSE [count |-> 0, resetTime |-> 0]]]
  /\ started = 0

InitRate == CacheIdle /\ PoolIdle /\ RateInit /\ ClientIdle /\ ExtensionIdle

\* the workload of two clients on the forecast route, upstream answering
NextRate ==
  \/ \E r \in ReqIds, ip \in Ips, city \in CityInputs, units \in UnitInputs :
          LowestIdle(r) /\ Start(r, "forecast", ip, city, units)
  \/ \E r \in ReqIds, outcome \in {Resolved(200), Resolved(404)} :
          FetchSettles(r, outcome)
  \/ \E r \in ReqIds, d \in Bodies : JsonSettles(r, d)
  \/ \E r \in ReqIds : Finish(r)
  \/ Tick /\ UNCHANGED setAt

SpecRate == InitRate /\ [][NextRate]_vars

\* the key functions applied to city names of up to MaxLen characters
KeyAlphabet == {" ", "D", "d"}
Dhaka == <<"D", "h", "a", "k", "a">>
KeyCities ==
  UNION {[1..n -> KeyAlphabet] : n \in 0..MaxLen} \cup {Dhaka}

KeyInit ==
  /\ cache = [c \in Categories |-> <<>>]
  /\ config = [weatherTTL |-> weatherTTL, forecastTTL |-> forecastTTL,
               geocodeTTL |-> geocodeTTL, maxSize |-> DefaultMaxSize]
  /\ now = 0
  /\ cleanupTimer = "running"
  /\ setAt = [c \in Categories |-> [k \in CacheKeys |-> -1]]
  /\ last \in {[NoCall EXCEPT !.op = "input", !.key = city, !.val = units] :
                 city \in KeyCities, units \in AllowedUnits}

InitKey == KeyInit /\ PoolIdle /\ HandlerInit /\ ClientIdle /\ ExtensionIdle

KeyCall(fn) ==
  /\ last.op = "input"
  /\ last' = [last EXCEPT !.op = fn,
                !.res = IF fn = "getWeatherKey"
                        THEN getWeatherKey(last.key, last.val)
                        ELSE getForecastKey(last.key, last.val)]
  /\ UNCHANGED <<cache, config, setAt, cleanupTimer, now, poolVars,
                 handlerVars, clientVars, extensionVars>>

NextKey == \E fn \in {"getWeatherKey", "getForecastKey"} : KeyCall(fn)

SpecKey == InitKey /\ [][NextKey]_vars

\* ------------------------------------------ credential pools at startup
\* the values of OPEN_WEATHER_API_KEYS and OPEN_WEATHER_API_KEY; an unset
\* variable reads as the empty string
EnvAlphabet == {",", " ", "k"}
EnvStrings == UNION {[1..n -> EnvAlphabet] : n \in 0..MaxLen}
Targets == {"backend", "extension"}

\* position of the first comma of t, 0 when there is none
RECURSIVE CommaFrom(_, _)
CommaFrom(t, i) ==
  IF i > Len(t) THEN 0 ELSE IF t[i] = "," THEN i ELSE CommaFrom(t, i + 1)

\* String.prototype.split(',')
RECURSIVE Split(_)
Split(t) ==
  IF CommaFrom(t, 1) = 0 THEN <<t>>
  ELSE <<SubSeq(t, 1, CommaFrom(t, 1) - 1)>>
         \o Split(SubSeq(t, CommaFrom(t, 1) + 1, Len(t)))

\* .split(',').map(key => key.trim()).filter(key => key.length > 0)
ParseKeys(t) ==
  SelectSeq([j \in 1..Len(Split(t)) |-> Trim(Split(t)[j])],
            LAMBDA k : Len(k) > 0)

\* OPEN_WEATHER_API_KEYS || OPEN_WEATHER_API_KEY || ''
EffectiveKeys(st) == IF st.multi # <<>> THEN st.multi ELSE st.single

KeyRecords(ks) ==
  [i \in 1..Len(ks) |-> [key |-> ks[i], requests |-> 0, lastUsed |-> 0,
                          errors |-> 0, isActive |-> TRUE]]

\* new ApiKeyManager(): initializeKeys() throws on an empty list
initializeKeys ==
  /\ startup.target = "backend" /\ startup.state = "loading"
  /\ LET apiKeys == EffectiveKeys(startup)
         keyArray == ParseKeys(apiKeys)
     IN IF apiKeys = <<>> \/ Len(keyArray) = 0
        THEN /\ startup' = [startup EXCEPT !.state = "failed"]
             /\ UNCHANGED keys
        ELSE /\ startup' = [startup EXCEPT !.state = "ready"]
             /\ keys' = KeyRecords(keyArray)
  /\ UNCHANGED <<cacheVars, now, currentIndex, call, calls, sawError,
                 handlerVars, clientVars, storedCities, menu>>

\* the extension's apiKeyManager module is evaluated: keys is computed, an
\* empty list is logged
LoadKeys ==
  /\ startup.target = "extension" /\ startup.state = "loading"
  /\ startup' = [startup EXCEPT !.state = "ready"]
  /\ keys' = ParseKeys(EffectiveKeys(startup))
  /\ UNCHANGED <<cacheVars, now, currentIndex, call, calls, sawError,
                 handlerVars, clientVars, storedCities, menu>>

\* getNextApiKey() of the extension
getNextApiKey ==
  /\ startup.target = "extension" /\ startup.state = "ready"
  /\ calls < MaxCalls
  /\ calls' = calls + 1
  /\ IF Len(keys) = 0
     THEN /\ call' = [NoPoolCall EXCEPT !.op = "getNextApiKey",
                                        !.threw = TRUE]
          /\ UNCHANGED currentIndex
     ELSE /\ call' = [NoPoolCall EXCEPT !.op = "getNextApiKey",
                                        !.key = keys[currentIndex + 1]]
          /\ currentIndex' = (currentIndex + 1) % Len(keys)
  /\ UNCHANGED <<cacheVars, now, keys, sawError, handlerVars, clientVars,
                 extensionVars>>

InitStartup ==
  /\ CacheIdle /\ HandlerInit /\ ClientIdle
  /\ keys = <<>> /\ currentIndex = 0 /\ call = NoPoolCall /\ calls = 0
  /\ sawError = FALSE
  /\ startup \in [target : Targets, multi : EnvStrings, single : EnvStrings,
                   state : {"loading"}]
  /\ storedCities = <<>>
  /\ menu = <<>>

NextStartup ==
  \/ initializeKeys
  \/ LoadKeys
  \/ startup.target = "backend" /\ startup.state = "ready" /\ GetNextKey
  \/ getNextApiKey

SpecStartup == InitStartup /\ [][NextStartup]_vars

\* ------------------------------------ overlapping calls on a cold cache
RaceIds == 1..MaxOverlap

\* getWeatherData calls for two keys; the first two cities give the same key
RaceArgs ==
  {[fn |-> "weather", city |-> city, units |-> "metric", lat |-> 0, lon |-> 0,
    nan |-> FALSE] :
     city \in {<<"D", "h">>, <<" ", "D", "h">>, <<"d", "k">>}}

\* two answers of the backend that pass the structure check, and one that
\* does not
RaceBodies == {"name+main+weather", "name+main+weather+wind", "main+weather"}

InitRace ==
  /\ CacheInit /\ PoolIdle /\ HandlerInit /\ ExtensionIdle
  /\ client = [i \in RaceIds |-> NoClient]
  /\ negative = NoNegative

RaceStep ==
  \/ \E i \in RaceIds, a \in RaceArgs : ClientCall(i, a)
  \/ \E i \in RaceIds : ClientFetchSettles(i, Resolved(200))
  \/ \E i \in RaceIds, d \in RaceBodies : ClientJsonSettles(i, d)
  \/ \E i \in RaceIds : ClientFinish(i)

NextRace == RaceStep /\ UNCHANGED negative

SpecRace == InitRace /\ [][NextRace]_vars

\* ------------------------------------- context menu: add selected city
EventIds == 1..MaxEvents

\* event.selectionText; <<>> stands for a click with no selection
MenuTexts == {<<>>, <<"D">>, <<" ", "D">>, <<"O">>}

Includes(q, x) == \E j \in 1..Len(q) : q[j] = x

\* the listener is invoked and calls getStoredCities()
Clicked(e, text) ==
  /\ menu[e].pc = "idle"
  /\ menu' = [menu EXCEPT ![e] = [NoMenu EXCEPT !.pc = "get", !.text = text]]
  /\ UNCHANGED <<cacheVars, now, poolVars, handlerVars, clientVars, startup,
                 storedCities>>

\* chrome.storage.local.get answers: the listener goes on with the list
\* it was given and, for a city not in it, calls setStoredCities
GetSettles(e) ==
  /\ menu[e].pc = "get"
  /\ LET cities == storedCities
         newCity == Trim(menu[e].text)
     IN menu' = [menu EXCEPT ![e] =
          IF menu[e].text # <<>> /\ ~Includes(cities, newCity)
          THEN [menu[e] EXCEPT !.pc = "set",
                               !.cities = Append(cities, newCity)]
          ELSE [menu[e] EXCEPT !.pc = "done"]]
  /\ UNCHANGED <<cacheVars, now, poolVars, handlerVars, clientVars, startup,
                 storedCities>>

\* chrome.storage.local.set stores the list and answers
SetSettles(e) ==
  /\ menu[e].pc = "set"
  /\ storedCities' = menu[e].cities
  /\ menu' = [menu EXCEPT ![e].pc = "done", ![e].wrote = TRUE]
  /\ UNCHANGED <<cacheVars, now, poolVars, handlerVars, clientVars, startup>>

InitMenu ==
  /\ CacheIdle /\ PoolIdle /\ HandlerInit /\ ClientIdle
  /\ startup = NoStartup
  /\ storedCities = <<>>
  /\ menu = [e \in EventIds |-> NoMenu]

NextMenu ==
  \/ \E e \in EventIds, text \in MenuTexts : Clicked(e, text)
  \/ \E e \in EventIds : GetSettles(e)
  \/ \E e \in EventIds : SetSettles(e)

SpecMenu == InitMenu /\ [][NextMenu]_vars

\* the shared clientCache of the extension: new ClientCache()
ClientCacheInit ==
  /\ cache = [c \in Categories |-> <<>>]
  /\ config = [weatherTTL |-> weatherTTL, forecastTTL |-> forecastTTL,
               geocodeTTL |-> geocodeTTL, maxSize |-> DefaultMaxSize]
  /\ now = 0
  /\ cleanupTimer = "running"
  /\ last = NoCall
  /\ setAt = [c \in Categories |-> [k \in CacheKeys |-> -1]]

InitClient == ClientCacheInit /\ PoolIdle /\ HandlerInit /\ ClientIdle /\ ExtensionIdle

LowestIdleClient(i) == \A q \in ClientIds : q < i => client[q].pc # "idle"

\* the workload gives a new call the lowest free slot and keeps one
\* category populated at a time
ClientStep ==
  \/ \E i \in ClientIds, a \in ClientArgs :
       LowestIdleClient(i) /\ OthersEmpty(a.fn) /\ ClientCall(i, a)
  \/ \E i \in ClientIds, outcome \in BackendOutcomes :
       ClientFetchSettles(i, outcome)
  \/ \E i \in ClientIds : ClientRetry(i)
  \/ \E i \in ClientIds, d \in ClientBodies : ClientJsonSettles(i, d)
  \/ \E i \in ClientIds : ClientFinish(i)
  \/ Cleanup /\ UNCHANGED setAt
  \/ Tick /\ UNCHANGED setAt

NextClient == ClientStep /\ UNCHANGED negative

SpecClient == InitClient /\ [][NextClient]_vars

\* the same calls, with the latest not-found answer recorded
RecordNegative ==
  negative' =
    IF \E i \in ClientIds : ClientFetchSettles(i, Resolved(404))
    THEN LET i == CHOOSE j \in ClientIds : ClientFetchSettles(j, Resolved(404))
         IN [fn |-> client[i].fn, key |-> client[i].key, at |-> now]
    ELSE negative

NextNegative == ClientStep /\ RecordNegative

SpecNegative == InitClient /\ [][NextNegative]_vars

\* ------------------------------ the extension and the backend, each from
\* a fresh start: calls of the API functions begin while the backend has
\* received nothing, requests to the backend begin while the extension
\* has done nothing
ClientsIdle == \A i \in ClientIds : client[i].pc = "idle"

InitInput ==
  ClientCacheInit /\ PoolInit /\ HandlerInit /\ ClientIdle /\ ExtensionIdle

InputStep ==
  \/ \E i \in ClientIds, a \in ClientArgs :
       /\ started = 0
       /\ LowestIdleClient(i) /\ OthersEmpty(a.fn) /\ ClientCall(i, a)
  \/ \E i \in ClientIds, outcome \in BackendOutcomes :
       ClientFetchSettles(i, outcome)
  \/ \E i \in ClientIds : ClientRetry(i)
  \/ \E i \in ClientIds, d \in ClientBodies : ClientJsonSettles(i, d)
  \/ \E i \in ClientIds : ClientFinish(i)
  \/ \E r \in ReqIds, route \in Routes, ip \in OneIp, city \in CityInputs,
        units \in UnitInputs :
          /\ ClientsIdle /\ last.op = "none"
          /\ LowestIdle(r) /\ Start(r, route, ip, city, units)
  \/ \E r \in ReqIds, outcome \in FetchOutcomes : FetchSettles(r, outcome)
  \/ \E r \in ReqIds, d \in Bodies : JsonSettles(r, d)
  \/ \E r \in ReqIds : Finish(r)

NextInput == InputStep /\ UNCHANGED negative

SpecInput == InitInput /\ [][NextInput]_vars

\* the timers: the abort timer of secureFetch and of the route handler is
\* armed while the fetch is awaited, the backoff timer while a retry waits
ClientTimeout(i) ==
  ClientFetchSettles(i, Rejected("AbortError")) /\ UNCHANGED negative
BackoffElapsed(i) == ClientRetry(i) /\ UNCHANGED negative
HandlerTimeout(r) == FetchSettles(r, Rejected("AbortError"))

\* the same steps, given that timers fire; nothing makes the upstream
\* deliver headers or a body
SpecLive ==
  /\ InitInput /\ [][NextInput]_vars
  /\ \A i \in ClientIds : WF_vars(ClientTimeout(i)) /\ WF_vars(BackoffElapsed(i))
  /\ \A r \in ReqIds : WF_vars(HandlerTimeout(r))

\* ------------------------------------------------------ cache properties
MinTimestamp(m) ==
  CHOOSE t \in {m[i].timestamp : i \in 1..Len(m)} :
    \A j \in 1..Len(m) : t <= m[j].timestamp

\* C1: after every set the category holds at most maxSize entries, and a
\* set of a new key on a map at capacity removes exactly one entry so that
\* the size stays maxSize.
C1_SizeBound ==
  [][last'.op = "set" =>
       LET m == cache[last'.cat]
           m2 == cache'[last'.cat]
       IN /\ Len(m2) <= config.maxSize
          /\ (Len(m) = config.maxSize /\ ~MapHas(m, last'.key)) =>
                /\ Cardinality(MapKeys(m) \ MapKeys(m2)) = 1
                /\ Len(m2) = config.maxSize]_vars

\* C2: a get never returns a value whose set happened more than ttl ago.
C2_BoundedStaleness ==
  (last.op = "get" /\ last.res # Null) =>
     now - setAt[last.cat][last.key] <= TTLOf(last.cat)

\* C4: a set of a new key at capacity removes only an entry whose timestamp
\* (its set or latest successful get) is the oldest of the map; it removes
\* one when the oldest entries have non-empty keys; and an entry read
\* successfully right before the set survives when another entry was
\* touched strictly earlier.
C4_LruByAccess ==
  [][(last'.op = "set" /\ ~MapHas(cache[last'.cat], last'.key)
        /\ Len(cache[last'.cat]) >= config.maxSize) =>
       LET m == cache[last'.cat]
           m2 == cache'[last'.cat]
           removed == MapKeys(m) \ MapKeys(m2)
       IN /\ \A k \in removed : MapGet(m, k).timestamp = MinTimestamp(m)
          /\ (\A i \in 1..Len(m) :
                 m[i].timestamp = MinTimestamp(m) => m[i].key # "")
               => Cardinality(removed) = 1
          /\ (/\ last.op = "get" /\ last.res # Null /\ last.cat = last'.cat
              /\ \E i \in 1..Len(m) :
                    m[i].key # last.key /\ m[i].timestamp < now)
               => MapHas(m2, last.key)]_vars

\* the set evicted the second-inserted entry: the first one had been
\* touched since
W_C4 ==
  /\ last.op = "set" /\ ~last.had /\ last.goneAt = {2}
  /\ Len(cache[last.cat]) = config.maxSize

\* C5: a get that directly follows a set of the same key, with no time
\* elapsed, returns the value of that set (the later one of two sets).
C5_ReadAfterWrite ==
  [][(last.op = "set" /\ last'.op = "get" /\ last'.cat = last.cat
        /\ last'.key = last.key) => last'.res = last.val]_vars

\* the key was overwritten by a second set and then read
W_C5 ==
  /\ last.op = "get" /\ last.had /\ last.res = "v2"
  /\ MapGet(cache[last.cat], last.key).timestamp = now
  /\ Len(cache[last.cat]) = config.maxSize

\* C6: a get of a stored key returns null and removes the entry (size
\* drops by one) when more than ttl has elapsed since its timestamp, and
\* returns the stored value when ttl or less has elapsed.
C6_ExpiryOnRead ==
  [][(last'.op = "get" /\ MapHas(cache[last'.cat], last'.key)) =>
       LET m == cache[last'.cat]
           m2 == cache'[last'.cat]
           e == MapGet(m, last'.key)
       IN IF now - e.timestamp > TTLOf(last'.cat)
          THEN /\ last'.res = Null
               /\ ~MapHas(m2, last'.key)
               /\ Len(m2) = Len(m) - 1
          ELSE /\ last'.res = e.data
               /\ MapHas(m2, last'.key)]_vars

\* a get found its entry expired and dropped it
W_C6 == last.op = "get" /\ last.had /\ last.res = Null /\ last.gone = {last.key}

\* ------------------------------------------------------- pool properties
TotalKeys == Len(keys)
ActiveKeys == Cardinality({i \in 1..Len(keys) : keys[i].isActive})
AllDistinct(q) == \A i, j \in 1..Len(q) : i # j => q[i] # q[j]

\* C7: while recordError has never been called, the k-th getNextKey call
\* returns the credential at position (k-1) mod N of the configured order,
\* and after M calls every credential was returned floor(M/N) or
\* ceil(M/N) times.
C7_RoundRobin ==
  ~sawError =>
     /\ \A i \in 1..TotalKeys :
          \/ keys[i].requests = calls \div TotalKeys
          \/ /\ calls % TotalKeys # 0
             /\ keys[i].requests = (calls \div TotalKeys) + 1
     /\ call.op = "getNextKey" =>
          /\ ~call.threw
          /\ call.key = ApiKeys[((calls - 1) % TotalKeys) + 1]

\* more calls than credentials were served, the rotation wrapped around
W_C7 ==
  /\ ~sawError /\ call.op = "getNextKey"
  /\ TotalKeys >= 2 /\ calls > TotalKeys /\ calls % TotalKeys # 0

\* C8: a getNextKey call on a pool with no active credential returns one
\* of the configured credentials without throwing and leaves every
\* credential active with errors = 0.
C8_SelfHealing ==
  [][(ActiveKeys = 0 /\ call'.op = "getNextKey") =>
       /\ ~call'.threw
       /\ call'.key \in ConfiguredKeys
       /\ \A i \in 1..TotalKeys :
            keys'[i].isActive /\ keys'[i].errors = 0]_vars

\* a pool of several credentials was swept by the call
W_C8 ==
  /\ call.op = "getNextKey" /\ Len(call.passes) = 2
  /\ TotalKeys >= 2 /\ ActiveKeys = TotalKeys
  /\ \A i \in 1..TotalKeys : keys[i].errors = 0

\* C9: an active credential has fewer than 5 errors and stays active while
\* its errors stay below 5; the recordError that brings errors to 5 makes
\* it inactive; getNextKey never returns an inactive credential while some
\* credential is active.
C9_Threshold ==
  [][/\ \A i \in 1..TotalKeys :
          /\ keys[i].isActive => keys[i].errors < maxErrors
          /\ (keys[i].isActive /\ keys'[i].errors < maxErrors)
               => keys'[i].isActive
          /\ (call'.op = "recordError" /\ call'.key = keys[i].key
                /\ keys[i].errors = maxErrors - 1)
               => (keys'[i].errors = maxErrors /\ ~keys'[i].isActive)
     /\ (call'.op = "getNextKey" /\ ActiveKeys > 0) =>
          \E i \in 1..TotalKeys : keys[i].key = call'.key /\ keys[i].isActive
    ]_vars

\* getNextKey skipped a deactivated credential and served an active one
W_C9 ==
  /\ call.op = "getNextKey" /\ Len(call.passes) = 1
  /\ Len(call.passes[1]) >= 2
  /\ \E i \in 1..TotalKeys :
       ~keys[i].isActive /\ keys[i].errors = maxErrors

\* C10: every getNextKey call returns a credential without throwing, with
\* at most one reactivation sweep and one recursive retry, each pass of
\* the loop inspecting every record at most once.
C10_AcquireTotal ==
  call.op = "getNextKey" =>
     /\ ~call.threw
     /\ call.key \in ConfiguredKeys
     /\ Len(call.passes) <= 2
     /\ \A p \in 1..Len(call.passes) :
          /\ AllDistinct(call.passes[p])
          /\ Len(call.passes[p]) <= TotalKeys

\* the first pass inspected every record, the retry found one at once
W_C10 ==
  /\ call.op = "getNextKey" /\ Len(call.passes) = 2
  /\ Len(call.passes[1]) = TotalKeys /\ Len(call.passes[2]) = 1
  /\ TotalKeys = MaxKeys
\* ---------------------------------------------------- handler properties
\* C3: a request that acquired a credential has made exactly one
\* recordSuccess or recordError call for it when it returns its response.
C3_Pairing ==
  \A r \in ReqIds :
    (req[r].pc = "done" /\ req[r].apiKey # "") => req[r].reports = 1

\* position of the credential request r acquired
KeyOf(r) == FindKey(keys, req[r].apiKey)

\* C11: when the upstream call of a request is aborted by the timeout or
\* fails at network level, recordError is called for the credential the
\* request acquired (its errors grow by one) and the caller receives an
\* error response.
C11_TransportPenalty ==
  [][\A r \in ReqIds, name \in {"AbortError", "TypeError"} :
       FetchSettles(r, Rejected(name)) =>
          /\ call'.op = "recordError" /\ call'.key = req[r].apiKey
          /\ keys'[KeyOf(r)].errors = keys[KeyOf(r)].errors + 1
          /\ req'[r].pc = "done" /\ req'[r].status >= 400]_vars

\* C12: when upstream answers 404, the step that answers the request makes
\* no pool call: the credential it acquired keeps its errors count and its
\* isActive value, and the request made no report.
C12_NotFoundNoPenalty ==
  [][\A r \in ReqIds :
       (req[r].pc = "fetch" /\ req'[r].pc = "done" /\ req'[r].status = 404) =>
          /\ keys'[KeyOf(r)].errors = keys[KeyOf(r)].errors
          /\ keys'[KeyOf(r)].isActive = keys[KeyOf(r)].isActive
          /\ call' = call
          /\ req'[r].reports = 0]_vars

\* a request was answered not-found on a credential that carries errors
W_C12 ==
  \E r \in ReqIds :
    /\ req[r].pc = "done" /\ req[r].status = 404
    /\ keys[KeyOf(r)].errors > 0 /\ keys[KeyOf(r)].isActive

\* C15: when upstream rejects the acquired credential with 401, the handler
\* records the failure on it, acquires a second credential with getNextKey
\* and repeats the upstream call.
C15_UnauthorizedRetry ==
  [][\A r \in ReqIds :
       FetchSettles(r, Resolved(401)) =>
          /\ calls' = calls + 1
          /\ call'.op = "getNextKey"
          /\ req'[r].pc = "refetch"]_vars

Transport == {"AbortError", "TypeError"}
Backoff == <<1000, 2000, 4000>>

\* C13: after a call for a city was answered not-found, a call with the same
\* function and key issued within the negative-result window makes no network call;
\* one issued after the window calls the network again.
C13_NegativeCache ==
  [][\A i \in ClientIds, a \in ClientArgs :
       (/\ ClientCall(i, a) /\ ArgsValid(a) /\ a.fn # "geocode"
        /\ negative.fn = a.fn /\ negative.key = KeyOfArgs(a)) =>
          IF now - negative.at <= ERROR_CACHE_DURATION
          THEN client'[i].attempts = 0
          ELSE ~MapHas(cache[a.fn], KeyOfArgs(a)) => client'[i].attempts = 1
    ]_vars

\* C14: a call whose derived key has an unexpired entry in the cache
\* returns the cached value (its city, for the geocode) and makes no
\* network call.
C14_CacheHit ==
  [][\A i \in ClientIds, a \in ClientArgs :
       (/\ ClientCall(i, a) /\ ArgsValid(a)
        /\ MapHas(cache[a.fn], KeyOfArgs(a))
        /\ now - MapGet(cache[a.fn], KeyOfArgs(a)).timestamp <= TTLOf(a.fn)) =>
          /\ client'[i].pc = "done" /\ client'[i].threw = ""
          /\ client'[i].attempts = 0
          /\ client'[i].result =
               Returned(a.fn, MapGet(cache[a.fn], KeyOfArgs(a)).data)]_vars

\* a call was served from the cache, after the clock had advanced
W_C14 ==
  \E i \in ClientIds :
    /\ client[i].pc = "done" /\ client[i].attempts = 0
    /\ client[i].result # Null /\ client[i].threw = ""
    /\ last.op = "get" /\ last.res # Null /\ now > 0

\* C16 (backend part): a 2xx upstream body that lacks name, main or weather
\* (weather route) or an array list (forecast route) makes the handler call
\* recordError on the credential used and answer with an error.
C16_ValidatedOnly ==
  [][\A r \in ReqIds, d \in Bodies :
       (/\ JsonSettles(r, d) /\ d.json
        /\ IF req[r].route = "weather"
           THEN ~(d.name /\ d.main /\ d.weather)
           ELSE d.list # "array") =>
          /\ call'.op = "recordError" /\ call'.key = req[r].apiKey
          /\ req'[r].status # 200]_vars

\* C16 (client part): every entry of the client cache is a body that
\* passed the structure check of its category.
CachedEntriesValidated ==
  \A c \in Categories : \A j \in 1..Len(cache[c]) :
    LET d == cache[c][j].data
    IN IF c = "weather" THEN HasName(d) /\ HasMain(d) /\ HasWeather(d)
       ELSE IF c = "forecast" THEN ListIsArray(d)
       ELSE HasCity(d)

\* C17 (as claimed): a transport failure that persists is surfaced after
\* exactly 3 network attempts.
C17_ThreeAttempts ==
  \A i \in ClientIds :
    (client[i].pc = "done" /\ client[i].threw \in Transport) =>
       client[i].attempts = 3

\* C17 (amended): a transport failure that persists is surfaced after
\* exactly 4 network attempts, the first and MAX_RETRIES retries, with
\* waits of 1 s, 2 s and 4 s between them; a wait starts only when the
\* fetch itself throws, and an HTTP error status or a payload that fails
\* validation ends the call with no further attempt.
C17_RetryBudget ==
  [][\A i \in ClientIds :
       /\ client'[i].attempts <= MAX_RETRIES + 1
       /\ Len(client'[i].waits) <= Len(Backoff)
       /\ \A j \in 1..Len(client'[i].waits) : client'[i].waits[j] = Backoff[j]
       /\ client'[i].pc = "fetch" =>
            client'[i].attempts = Len(client'[i].waits) + 1
       /\ (client'[i].pc = "done" /\ client'[i].threw \in Transport) =>
            (client'[i].attempts = MAX_RETRIES + 1 /\ client'[i].waits = Backoff)
       /\ (client[i].pc # "wait" /\ client'[i].pc = "wait") =>
            \E name \in Transport : ClientFetchSettles(i, Rejected(name))
       /\ \A outcome \in BackendOutcomes :
            (ClientFetchSettles(i, outcome) /\ ~outcome.rejected) =>
               /\ client'[i].pc \in {"done", "json"}
               /\ client'[i].attempts = client[i].attempts
       /\ client[i].pc = "json" =>
            (client'[i].pc \in {"done", "json"}
               /\ client'[i].attempts = client[i].attempts)]_vars

\* a persisting transport failure was surfaced after the last retry
W_C17 ==
  \E i \in ClientIds :
    /\ client[i].pc = "done" /\ client[i].threw \in Transport
    /\ client[i].retries = 0 /\ client[i].waits = Backoff

\* C18: a destroy() call raises no error, leaves the cleanup timer
\* cancelled and leaves every category empty, the first time and every
\* later time.
C18_Teardown ==
  last.op = "destroy" =>
     /\ last.res # "TypeError"
     /\ cleanupTimer = "cleared"
     /\ \A c \in Categories : cache[c] = <<>>

\* lowercase(trim(c))
LowerAll(t) == [j \in 1..Len(t) |-> ToLower(t[j])]
Normalize(t) == LowerAll(Trim(t))
KeyFn(fn, city, units) ==
  IF fn = "getWeatherKey" THEN getWeatherKey(city, units)
  ELSE getForecastKey(city, units)

\* C19: the key of a city is the key of its lower-cased, trimmed name,
\* normalizing twice gives the same key as once, and 'Dhaka'/'metric'
\* gives 'weather-dhaka-metric'.
C19_KeyNormalization ==
  last.op \in {"getWeatherKey", "getForecastKey"} =>
     /\ last.res = KeyFn(last.op, Normalize(last.key), last.val)
     /\ KeyFn(last.op, Normalize(Normalize(last.key)), last.val)
          = KeyFn(last.op, Normalize(last.key), last.val)
     /\ (last.op = "getWeatherKey" /\ last.key = Dhaka /\ last.val = "metric")
          => last.res = WeatherPrefix \o <<"d", "h", "a", "k", "a", "-">>
                          \o UnitChars("metric")

\* ------------------------------------------------ pool properties, part 2
\* C21 (as claimed): between any two pool operations at least one
\* credential is active.
C21_AlwaysOneActive == ActiveKeys >= 1

\* C21 (amended): the pool loses its last active credential only by a
\* recordError call that brings that credential to maxErrors; the pool
\* then stays without an active credential until the next getNextKey
\* call, and every getNextKey call leaves at least one credential active.
C21_ActiveUntilAllFailed ==
  [][/\ (ActiveKeys > 0 /\ ActiveKeys' = 0) =>
          /\ call'.op = "recordError"
          /\ keys'[FindKey(keys, call'.key)].errors = maxErrors
     /\ (ActiveKeys = 0 /\ call'.op # "getNextKey") => ActiveKeys' = 0
     /\ call'.op = "getNextKey" => ActiveKeys' >= 1]_vars

\* recordError took the last active credential of a pool of several, and
\* the pool is left with none between operations
W_C21 ==
  /\ call.op = "recordError" /\ ActiveKeys = 0 /\ TotalKeys >= 2

\* ----------------------------------------------- cache properties, part 2
\* C24: a set on a key that is already stored replaces the value and the
\* timestamp of that key and removes no entry: the stored keys are the
\* same before and after, also when the map is at capacity.
C24_OverwriteEvictsNothing ==
  [][(last'.op = "set" /\ MapHas(cache[last'.cat], last'.key)) =>
       LET m == cache[last'.cat]
           m2 == cache'[last'.cat]
       IN /\ MapKeys(m2) = MapKeys(m)
          /\ Len(m2) = Len(m)
          /\ MapGet(m2, last'.key).data = last'.val
          /\ MapGet(m2, last'.key).timestamp = now]_vars

\* C25: cleanup removes, in every category, exactly the entries for which
\* more than ttl has elapsed since their timestamp and leaves the others
\* as they were; a get at the same instant returns every survivor; a
\* second cleanup at the same instant changes nothing.
C25_CleanupExact ==
  [][last'.op = "cleanup" =>
       /\ \A c \in Categories :
            /\ MapKeys(cache'[c]) \subseteq MapKeys(cache[c])
            /\ Len(cache'[c]) = Cardinality(MapKeys(cache'[c]))
            /\ \A k \in MapKeys(cache[c]) :
                 LET e == MapGet(cache[c], k)
                 IN IF now - e.timestamp > e.ttl
                    THEN ~MapHas(cache'[c], k)
                    ELSE /\ MapHas(cache'[c], k)
                         /\ MapGet(cache'[c], k) = e
                         /\ ~(now' - e.timestamp > TTLOf(c))
       /\ now' = now
       /\ last.op = "cleanup" => cache' = cache]_vars

\* a cleanup removed an expired entry and left a live one in place
W_C25 ==
  /\ last.op = "cleanup" /\ last.gone # {}
  /\ \E c \in Categories : cache[c] # <<>>

\* ------------------------------------------------ pool properties, part 3
\* C28: a credential goes from inactive to active only in a getNextKey
\* call made while no credential was active, and that call leaves every
\* credential active with errors = 0; getNextKey sweeps only when no
\* credential is active at the call; recordSuccess never changes isActive.
C28_ReactivationOnlyBySweep ==
  [][/\ \A i \in 1..TotalKeys :
          (~keys[i].isActive /\ keys'[i].isActive) =>
             /\ call'.op = "getNextKey"
             /\ ActiveKeys = 0
             /\ \A j \in 1..TotalKeys :
                  keys'[j].isActive /\ keys'[j].errors = 0
     /\ (call'.op = "getNextKey" /\ Len(call'.passes) > 1) => ActiveKeys = 0
     /\ call'.op = "recordSuccess" =>
          \A i \in 1..TotalKeys : keys'[i].isActive = keys[i].isActive
    ]_vars

\* a pool of several credentials that had been in use was swept
W_C28 ==
  /\ call.op = "getNextKey" /\ Len(call.passes) = 2 /\ TotalKeys >= 2
  /\ \A i \in 1..TotalKeys : keys[i].isActive /\ keys[i].errors = 0
  /\ \E i \in 1..TotalKeys : keys[i].requests >= 2

\* C29: for every credential, isActive is false exactly when errors has
\* reached maxErrors, and errors never exceeds maxErrors.
C29_ActiveIffBelowThreshold ==
  \A i \in 1..TotalKeys :
    /\ ~keys[i].isActive <=> keys[i].errors >= maxErrors
    /\ keys[i].errors <= maxErrors

\* --------------------------------------------------- startup properties
OnlySeparators(t) == \A i \in 1..Len(t) : t[i] \in {",", " "}

\* C22: when the configured credential list is empty (unset, or only
\* separators and white space), loading the pool fails, and no acquire
\* call is ever the one that throws for want of credentials.
C22_FailsAtConstruction ==
  /\ (startup.state \in {"ready", "failed"}
        /\ OnlySeparators(EffectiveKeys(startup))) => startup.state = "failed"
  /\ call.op \in {"getNextKey", "getNextApiKey"} => ~call.threw

\* ------------------------------------------------ context-menu properties
\* C30: the stored list holds every city that a completed handler added,
\* and holds no city twice.
C30_NoLostUpdate ==
  /\ \A e \in EventIds :
       (menu[e].pc = "done" /\ menu[e].wrote) =>
          Includes(storedCities, Trim(menu[e].text))
  /\ \A i, j \in 1..Len(storedCities) :
       i # j => storedCities[i] # storedCities[j]

\* ------------------------------------------- overlapping-call properties
\* C26: when a call stores its payload, the cache then holds exactly one
\* entry for the key and its value is that payload, whatever an
\* overlapping call stored before; no category ever holds more than
\* maxSize entries; and a call that is suspended holds no value read from
\* the cache, so that what it stores is the payload of its own response.
C26_LastWriteWins ==
  [][/\ \A i \in RaceIds :
          (client[i].pc = "json" /\ client'[i].pc = "done"
             /\ client'[i].threw = "") =>
             LET k == client[i].key
                 m2 == cache'[client[i].fn]
             IN /\ Cardinality({j \in 1..Len(m2) : m2[j].key = k}) = 1
                /\ MapGet(m2, k).data = client'[i].result
                /\ MapGet(m2, k).data = last'.val
                /\ MapGet(m2, k).timestamp = now
     /\ \A c \in Categories : Len(cache'[c]) <= config.maxSize
     /\ \A i \in RaceIds :
          client'[i].pc \in {"fetch", "wait", "json"} =>
             client'[i].result = Null]_vars

\* two calls for the same key both missed the cold cache and both stored
\* a payload; the cache holds the payload of the one processed last
W_C26 ==
  \E i, j \in RaceIds :
    /\ i # j
    /\ client[i].pc = "done" /\ client[j].pc = "done"
    /\ client[i].key = client[j].key
    /\ client[i].attempts = 1 /\ client[j].attempts = 1
    /\ client[i].result # Null /\ client[j].result # Null
    /\ client[i].result # client[j].result
    /\ last.op = "set" /\ last.val = client[j].result
    /\ MapGet(cache["weather"], client[j].key).data = client[j].result

\* --------------------------------------------- validation and liveness
\* the classes of invalid parameters
InvalidArgs(a) ==
  IF a.fn = "geocode"
  THEN \/ a.nan
       \/ a.lat < -9000000 \/ a.lat > 9000000
       \/ a.lon < -18000000 \/ a.lon > 18000000
  ELSE \/ Len(Trim(a.city)) < 2
       \/ MaliciousPattern(Trim(a.city))
       \/ a.units \notin {"metric", "imperial", "standard"}

InvalidQuery(city, units) ==
  \/ ~city.present \/ Trim(city.text) = <<>>
  \/ MaliciousPattern(Trim(city.text))
  \/ ~units.present \/ units.text \notin {"metric", "imperial", "standard"}

C23_EveryRequestSettles ==
  /\ \A i \in ClientIds :
       (client[i].pc \in {"fetch", "wait", "json"}) ~> (client[i].pc = "done")
  /\ \A r \in ReqIds :
       (req[r].pc \in {"fetch", "json"}) ~> (req[r].pc = "done")

\* the part the timers do cover: an awaited fetch always settles
FetchAlwaysSettles ==
  /\ \A i \in ClientIds : (client[i].pc = "fetch") ~> (client[i].pc # "fetch")
  /\ \A r \in ReqIds : (req[r].pc = "fetch") ~> (req[r].pc # "fetch")
====
